---- MODULE Spec2Model ----
(***************************************************************************)
(* State-machine model of the OAuth 2.0 PKCE session core of the Etsy      *)
(* seller MCP server: server.py (connect / disconnect / status / restore   *)
(* and the keyring-backed session store), callback_server.py (the local    *)
(* redirect listener) and oauth_manager.py (state / verifier generation    *)
(* and the code-for-token exchange), and the get_my_shop tool of server.py *)
(* with the two EtsyClient requests it awaits (etsy_client.py).            *)
(*                                                                         *)
(* Threads: the asyncio event loop runs the tool coroutines; it is blocked *)
(* while connect_etsy sits in webbrowser.open, wait_for_callback or stop   *)
(* (all synchronous) and released only at the awaits of the token          *)
(* exchange: the POST, and the close of its AsyncClient.  Every callback   *)
(* listener serves its requests on a thread of its own, from start() on.   *)
(***************************************************************************)
EXTENDS Integers, Sequences, FiniteSets, TLC

\* ------------------------------------------------------------------ bounds
MaxAttempts == 2      \* connect_etsy invocations in one process lifetime
MaxNow == 1           \* clock ticks

\* ------------------------------------------------------- program constants
DefaultExpiresIn == 3600      \* data.get("expires_in", 3600)

VARIABLES
    now,                \* datetime.utcnow(), in ticks
    main_pc,            \* "start" | "running" | "crashed": module import of server.py
    env_api_key,        \* whether ETSY_API_KEY is set in the environment
    oauth_manager,      \* module global: None or "OAuthManager"
    om_state,           \* OAuthManager.state
    om_code_verifier,   \* OAuthManager.code_verifier
    session_token,      \* module global
    etsy_client,        \* module global: None or the access token the client holds
    keyring,            \* the two entries of service "etsy-seller-mcp"
    attempts,           \* connect_etsy invocations so far
    pc,                 \* position of each connect_etsy invocation
    auth_data,          \* connect_etsy local: what get_authorization_url returned
    wait_result,        \* connect_etsy local: callback_data returned, or the timeout
    posts,              \* token-endpoint POSTs issued by each invocation
    exchange_outcome,   \* exchange_code_for_token: what its async-with body produced
    token_data,         \* connect_etsy local: what exchange_code_for_token returned
    browser_opened,     \* webbrowser.open(url) was called and returned
    server,             \* OAuthCallbackServer.server of each instance
    callback_data,      \* OAuthCallbackServer.callback_data
    callback_received,  \* OAuthCallbackServer.callback_received (threading.Event)
    callback_function,  \* CallbackHandler.callback_function (class attribute)
    inflight,           \* the request each listener thread is serving, and its response
    last_return,        \* the tool / startup operation that returned last
    shop_pc,            \* position of the get_my_shop call: "idle" | "user" | "shop"
    shop_user_data,     \* get_my_shop local: user_data
    upstream            \* Etsy API requests the get_my_shop call has issued

vars == <<now, main_pc, env_api_key, oauth_manager, om_state, om_code_verifier,
          session_token, etsy_client, keyring, attempts, pc,
          auth_data, wait_result, posts, exchange_outcome, token_data,
          browser_opened, server,
          callback_data, callback_received, callback_function, inflight,
          last_return, shop_pc, shop_user_data, upstream>>

shop_vars == <<shop_pc, shop_user_data, upstream>>
session_vars == <<session_token, etsy_client, keyring>>
manager_vars == <<oauth_manager, om_state, om_code_verifier>>
connect_vars == <<attempts, pc, auth_data, wait_result, posts, exchange_outcome,
                  token_data, browser_opened>>
listener_vars == <<server, callback_data, callback_received, callback_function,
                   inflight>>

\* ------------------------------------------------------------ Python values
None == "None"
EmptyDict == [k \in {} |-> None]
Get(d, k) == IF k \in DOMAIN d THEN d[k] ELSE None
GetDefault(d, k, dflt) == IF k \in DOMAIN d THEN d[k] ELSE dflt
Truthy(s) == s # None /\ s # ""

Attempts == 1..MaxAttempts

\* ------------------------------------------------------- time and encoding
\* datetime.isoformat() / datetime.fromisoformat() and json.dumps / json.loads
\* of the metadata blob: text out, parsed back.
TimeStamps == {n + e : n \in 0..MaxNow, e \in {0, 1, DefaultExpiresIn}}
isoformat(t) == "T" \o ToString(t)
fromisoformat(s) == CHOOSE t \in TimeStamps : isoformat(t) = s
json_dumps(expires_at) == "{expires_at: " \o expires_at \o "}"
\* Mutant of json_loads: the expires_at member is lost in parsing.
json_loads_without_expiry(text) ==
    EmptyDict

json_loads(text) ==
    IF \E t \in TimeStamps : json_dumps(isoformat(t)) = text
    THEN [expires_at |-> isoformat(CHOOSE t \in TimeStamps : json_dumps(isoformat(t)) = text)]
    ELSE EmptyDict

\* ------------------------------------------------------------ OAuthManager
\* secrets.token_urlsafe(32) and the PKCE verifier: 32 random bytes, fresh in
\* every call, so the n-th call's values differ from every other call's.
\* Mutant of NewState: every call returns the same state.
NewState_reused(n) == "state_1"

NewState(n) == "state_" \o ToString(n)
NewVerifier(n) == "verifier_" \o ToString(n)

get_authorization_url(n) ==
    [state |-> NewState(n), code_verifier |-> NewVerifier(n)]

\* The token endpoint's answers to the POST of invocation t.
AccessToken(t) == "tok_" \o ToString(t)
TokenResponses(t) ==
    { [status_code |-> 400, json |-> EmptyDict],
      [status_code |-> 200, json |-> EmptyDict],
      [status_code |-> 200, json |-> [access_token |-> ""]],
      [status_code |-> 200, json |-> [access_token |-> AccessToken(t)]],
      [status_code |-> 200, json |-> [access_token |-> AccessToken(t),
                                      expires_in |-> 1, token_type |-> "MAC"]] }

\* Mutant of token_requests: the POST is sent again after the first answer.
token_requests_resent(code, code_verifier) ==
    <<[code |-> code, code_verifier |-> code_verifier],
      [code |-> code, code_verifier |-> code_verifier]>>

\* exchange_code_for_token: the POSTs it sends to the token endpoint (one).
token_requests(code, code_verifier) ==
    <<[code |-> code, code_verifier |-> code_verifier]>>

\* Mutant of exchange_code_for_token: access_token is read with data.get, so
\* a body without it yields a record whose access_token is None.
exchange_code_for_token_optional_token(response, utcnow) ==
    IF response.status_code # 200
    THEN [raised |-> TRUE, error |-> "HTTPStatusError", value |-> EmptyDict]
    ELSE LET data == response.json
             expires_in == GetDefault(data, "expires_in", DefaultExpiresIn)
         IN  [raised |-> FALSE, error |-> None,
              value |-> [access_token |-> Get(data, "access_token"),
                         expires_at |-> isoformat(utcnow + expires_in),
                         token_type |-> GetDefault(data, "token_type", "Bearer")]]

\* Mutant of exchange_code_for_token: the response's expires_in is ignored and
\* the default lifetime is always used.
exchange_code_for_token_fixed_lifetime(response, utcnow) ==
    IF response.status_code # 200
    THEN [raised |-> TRUE, error |-> "HTTPStatusError", value |-> EmptyDict]
    ELSE LET data == response.json
         IN  IF "access_token" \notin DOMAIN data
             THEN [raised |-> TRUE, error |-> "'access_token'", value |-> EmptyDict]
             ELSE [raised |-> FALSE, error |-> None,
                   value |-> [access_token |-> data["access_token"],
                              expires_at |-> isoformat(utcnow + DefaultExpiresIn),
                              token_type |-> GetDefault(data, "token_type", "Bearer")]]

exchange_code_for_token(response, utcnow) ==
    IF response.status_code # 200
    THEN [raised |-> TRUE, error |-> "HTTPStatusError", value |-> EmptyDict]
    ELSE LET data == response.json
             expires_in == GetDefault(data, "expires_in", DefaultExpiresIn)
             expires_at == isoformat(utcnow + expires_in)
         IN  IF "access_token" \notin DOMAIN data
             THEN [raised |-> TRUE, error |-> "'access_token'", value |-> EmptyDict]
             ELSE [raised |-> FALSE, error |-> None,
                   value |-> [access_token |-> data["access_token"],
                              expires_at |-> expires_at,
                              token_type |-> GetDefault(data, "token_type", "Bearer")]]

\* --------------------------------------------------------------- EtsyClient
EtsyClient(api_key, access_token) ==
    IF ~api_key
    THEN [raised |-> TRUE, client |-> None,
          error |-> "ETSY_API_KEY is required. Set it as an environment variable."]
    ELSE IF ~Truthy(access_token)
    THEN [raised |-> TRUE, client |-> None,
          error |-> "No access token provided. Please use connect_etsy to authenticate."]
    ELSE [raised |-> FALSE, client |-> access_token, error |-> None]

\* ------------------------------------------------------------ session store
\* `fault` numbers the backend call of the operation that raises (0: none).
EmptyKeyring == [access_token |-> None, token_metadata |-> None]

\* Mutant of save_token_to_keyring: the metadata entry is not written.
save_token_to_keyring_token_only(kr, access_token, expires_at, fault) ==
    IF fault = 1
    THEN [kr |-> kr, faulted |-> TRUE]
    ELSE [kr |-> [kr EXCEPT !.access_token = access_token], faulted |-> fault = 2]

save_token_to_keyring(kr, access_token, expires_at, fault) ==
    IF fault = 1
    THEN [kr |-> kr, faulted |-> TRUE]
    ELSE LET k1 == [kr EXCEPT !.access_token = access_token]
         IN  IF fault = 2
             THEN [kr |-> k1, faulted |-> TRUE]
             ELSE [kr |-> [k1 EXCEPT !.token_metadata = json_dumps(expires_at)],
                   faulted |-> FALSE]

\* Mutant of delete_token_from_keyring: nothing is deleted.
delete_token_from_keyring_skipped(kr, fault) ==
    [kr |-> kr, faulted |-> fault # 0]

\* keyring.delete_password raises PasswordDeleteError for an entry that is not
\* there; the handler swallows it, and the second delete is then not reached.
delete_token_from_keyring(kr, fault) ==
    IF fault = 1
    THEN [kr |-> kr, faulted |-> TRUE]
    ELSE IF kr.access_token = None
    THEN [kr |-> kr, faulted |-> FALSE]
    ELSE LET k1 == [kr EXCEPT !.access_token = None]
         IN  IF fault = 2
             THEN [kr |-> k1, faulted |-> TRUE]
             ELSE IF k1.token_metadata = None
             THEN [kr |-> k1, faulted |-> FALSE]
             ELSE [kr |-> [k1 EXCEPT !.token_metadata = None], faulted |-> FALSE]

NotFound == [found |-> FALSE, access_token |-> None, expires_at |-> None]

\* Mutant of load_token_from_keyring: a record expiring exactly now is still
\* returned (> in place of >=).
load_token_from_keyring_strict(kr, utcnow, fault) ==
    IF fault = 1
    THEN [ret |-> NotFound, kr |-> kr, faulted |-> TRUE]
    ELSE IF ~Truthy(kr.access_token)
    THEN [ret |-> NotFound, kr |-> kr, faulted |-> FALSE]
    ELSE IF fault = 2
    THEN [ret |-> NotFound, kr |-> kr, faulted |-> TRUE]
    ELSE IF ~Truthy(kr.token_metadata)
    THEN [ret |-> NotFound, kr |-> kr, faulted |-> FALSE]
    ELSE LET metadata == json_loads(kr.token_metadata)
             expires_at == Get(metadata, "expires_at")
         IN  IF Truthy(expires_at) /\ utcnow > fromisoformat(expires_at)
             THEN LET d == delete_token_from_keyring(kr, IF fault > 2 THEN fault - 2 ELSE 0)
                  IN  [ret |-> NotFound, kr |-> d.kr, faulted |-> d.faulted]
             ELSE [ret |-> [found |-> TRUE, access_token |-> kr.access_token,
                            expires_at |-> expires_at],
                   kr |-> kr, faulted |-> FALSE]

\* Mutant of load_token_from_keyring: an access token found without its
\* metadata is deleted.
load_token_from_keyring_purging_partial(kr, utcnow, fault) ==
    IF fault = 1
    THEN [ret |-> NotFound, kr |-> kr, faulted |-> TRUE]
    ELSE IF ~Truthy(kr.access_token)
    THEN [ret |-> NotFound, kr |-> kr, faulted |-> FALSE]
    ELSE IF fault = 2
    THEN [ret |-> NotFound, kr |-> kr, faulted |-> TRUE]
    ELSE IF ~Truthy(kr.token_metadata)
    THEN [ret |-> NotFound, kr |-> [kr EXCEPT !.access_token = None],
          faulted |-> FALSE]
    ELSE LET metadata == json_loads(kr.token_metadata)
             expires_at == Get(metadata, "expires_at")
         IN  IF Truthy(expires_at) /\ utcnow >= fromisoformat(expires_at)
             THEN LET d == delete_token_from_keyring(kr, IF fault > 2 THEN fault - 2 ELSE 0)
                  IN  [ret |-> NotFound, kr |-> d.kr, faulted |-> d.faulted]
             ELSE [ret |-> [found |-> TRUE, access_token |-> kr.access_token,
                            expires_at |-> expires_at],
                   kr |-> kr, faulted |-> FALSE]

load_token_from_keyring(kr, utcnow, fault) ==
    IF fault = 1
    THEN [ret |-> NotFound, kr |-> kr, faulted |-> TRUE]
    ELSE IF ~Truthy(kr.access_token)
    THEN [ret |-> NotFound, kr |-> kr, faulted |-> FALSE]
    ELSE IF fault = 2
    THEN [ret |-> NotFound, kr |-> kr, faulted |-> TRUE]
    ELSE IF ~Truthy(kr.token_metadata)
    THEN [ret |-> NotFound, kr |-> kr, faulted |-> FALSE]
    ELSE LET metadata == json_loads(kr.token_metadata)
             expires_at == Get(metadata, "expires_at")
         IN  IF Truthy(expires_at) /\ utcnow >= fromisoformat(expires_at)
             THEN LET d == delete_token_from_keyring(kr, IF fault > 2 THEN fault - 2 ELSE 0)
                  IN  [ret |-> NotFound, kr |-> d.kr, faulted |-> d.faulted]
             ELSE [ret |-> [found |-> TRUE, access_token |-> kr.access_token,
                            expires_at |-> expires_at],
                   kr |-> kr, faulted |-> FALSE]

\* What an earlier run of the program can have left in the keyring: nothing, a
\* saved record (expiring at tick 0 or at tick 1), or one entry of a pair
\* whose other write / delete raised.
StoredRecord(t) == [access_token |-> "tok_0", token_metadata |-> json_dumps(isoformat(t))]
InitialKeyrings ==
    { EmptyKeyring, StoredRecord(0), StoredRecord(1),
      [access_token |-> "tok_0", token_metadata |-> None],
      [access_token |-> None, token_metadata |-> json_dumps(isoformat(1))] }

\* --------------------------------------------------------- callback listener
NoRequest == [phase |-> "none"]
Query(code, state, error) == [code |-> code, state |-> state, error |-> error]

\* parse_qs of the redirect's query string, as seen by listener l.
Queries(l) ==
    { Query(None, None, None),
      Query(None, None, "access_denied"),
      Query("code_1", NewState(l), "access_denied"),
      Query("code_1", NewState(l), None),
      Query("code_1", "state_forged", None),
      Query("code_1", None, None) }

\* CallbackHandler.do_GET: the status line it sends ...
do_GET_status(q) ==
    IF Truthy(q.error) THEN 400
    ELSE IF Truthy(q.code) THEN 200
    ELSE 400

\* Mutant of do_GET_callback_args: the code branch is tried before the error
\* branch.
do_GET_callback_args_code_first(q) ==
    IF Truthy(q.code) THEN Query(q.code, q.state, None)
    ELSE IF Truthy(q.error) THEN Query(None, None, q.error)
    ELSE EmptyDict

\* ... and the arguments it passes to callback_function (EmptyDict: no call).
do_GET_callback_args(q) ==
    IF Truthy(q.error) THEN Query(None, None, q.error)
    ELSE IF Truthy(q.code) THEN Query(q.code, q.state, None)
    ELSE EmptyDict

\* Mutant of PortInUse: the bind succeeds on a port that is already bound.
PortInUse_ignored == FALSE

PortInUse == \E l \in Attempts : server[l] = "bound"

\* --------------------------------------------------------------- event loop
\* webbrowser.open, wait_for_callback and stop are synchronous calls made on
\* the event loop.
LoopBlocked == \E t \in Attempts : pc[t] \in {"opening", "waiting", "stopping"}

Failure(msg) == [success |-> FALSE, error |-> msg]

\* The locals of a connect_etsy invocation, as they stand at its return.
NoFrame == EmptyDict
Frame(auth, waited, posted, exchanged, opened) ==
    [auth_data |-> auth, wait_result |-> waited, posts |-> posted,
     token_data |-> exchanged, browser_opened |-> opened]
NotWaited == [kind |-> "none", data |-> EmptyDict]
\* exchange_code_for_token has not got its answer (or is not running).
NoOutcome == EmptyDict

\* The session as an operation found it on entry.
Before(token, client, kr, utcnow) ==
    [session_token |-> token, etsy_client |-> client, keyring |-> kr, now |-> utcnow]

\* What last_return records: the operation that returned, its result, whether a
\* backend call raised inside it, and its frame: for connect_etsy its locals,
\* for disconnect_etsy and the startup restore the session found on entry.
Returned(op, task, result, faulted, frame) ==
    [op |-> op, task |-> task, result |-> result, faulted |-> faulted,
     frame |-> frame]
NothingReturned == Returned("none", 0, EmptyDict, FALSE, NoFrame)

\* Mutant of callback_verdict: the state comparison is left out.
callback_verdict_no_state_check(cb, auth) ==
    IF Truthy(Get(cb, "error")) THEN "error"
    ELSE IF ~Truthy(Get(cb, "code")) THEN "missing_code"
    ELSE "exchange"

\* connect_etsy after stop(): the checks on the callback result.
\* "exchange" means the code is handed to exchange_code_for_token.
callback_verdict(cb, auth) ==
    IF Truthy(Get(cb, "error")) THEN "error"
    ELSE IF ~Truthy(Get(cb, "code")) THEN "missing_code"
    ELSE IF Get(cb, "state") # auth.state THEN "state_mismatch"
    ELSE "exchange"

get_connection_status ==
    [success |-> TRUE, connected |-> etsy_client # None,
     message |-> IF etsy_client # None THEN "Connected to Etsy"
                 ELSE "Not connected. Use connect_etsy to authenticate."]

\* ---------------------------------------------------------------- initial
Init ==
    /\ now = 0
    /\ main_pc = "start"
    /\ env_api_key \in BOOLEAN
    /\ oauth_manager = None
    /\ om_state = None
    /\ om_code_verifier = None
    /\ session_token = None
    /\ etsy_client = None
    /\ keyring \in InitialKeyrings
    /\ attempts = 0
    /\ pc = [t \in Attempts |-> "new"]
    /\ auth_data = [t \in Attempts |-> EmptyDict]
    /\ wait_result = [t \in Attempts |-> NotWaited]
    /\ posts = [t \in Attempts |-> <<>>]
    /\ exchange_outcome = [t \in Attempts |-> NoOutcome]
    /\ token_data = [t \in Attempts |-> EmptyDict]
    /\ browser_opened = [t \in Attempts |-> FALSE]
    /\ server = [l \in Attempts |-> None]
    /\ callback_data = [l \in Attempts |-> EmptyDict]
    /\ callback_received = [l \in Attempts |-> FALSE]
    /\ callback_function = 0
    /\ inflight = [l \in Attempts |-> NoRequest]
    /\ last_return = NothingReturned
    /\ shop_pc = "idle"
    /\ shop_user_data = EmptyDict
    /\ upstream = <<>>

\* ----------------------------------------------------------------- actions
\* The clock advances, whatever the process is doing: while the event loop
\* runs or is blocked, and while a listener serves a request.  utcnow() is
\* read by the load (Startup) and by the exchange (ExchangeAnswer).
\* Mutant of Tick: the session is dropped the moment the stored record's
\* expires_at is reached.
Tick_expiring_session ==
    /\ now < MaxNow
    /\ now' = now + 1
    /\ IF load_token_from_keyring(keyring, now + 1, 0).ret.found
       THEN UNCHANGED <<session_token, etsy_client>>
       ELSE session_token' = None /\ etsy_client' = None
    /\ UNCHANGED <<main_pc, env_api_key, shop_vars, manager_vars, keyring,
                   connect_vars, listener_vars, last_return>>

Tick ==
    /\ now < MaxNow
    /\ now' = now + 1
    /\ UNCHANGED <<main_pc, env_api_key, shop_vars, manager_vars, session_vars,
                   connect_vars, listener_vars, last_return>>

\* Mutant of restore_session_from_keyring: a backend call that raises in the
\* load is not caught and escapes the restore.
restore_session_from_keyring_load_uncaught(kr, utcnow, api_key, fault) ==
    LET loaded == load_token_from_keyring(kr, utcnow, fault)
        client == EtsyClient(api_key, loaded.ret.access_token)
    IN  IF loaded.faulted
        THEN [ret |-> FALSE, raised |-> "KeyringError", session_token |-> None,
              etsy_client |-> None, kr |-> loaded.kr, faulted |-> TRUE]
        ELSE IF ~loaded.ret.found
        THEN [ret |-> FALSE, raised |-> None, session_token |-> None,
              etsy_client |-> None, kr |-> loaded.kr, faulted |-> FALSE]
        ELSE IF client.raised
        THEN [ret |-> FALSE, raised |-> client.error,
              session_token |-> loaded.ret.access_token,
              etsy_client |-> None, kr |-> loaded.kr, faulted |-> FALSE]
        ELSE [ret |-> TRUE, raised |-> None,
              session_token |-> loaded.ret.access_token,
              etsy_client |-> client.client, kr |-> loaded.kr,
              faulted |-> FALSE]

\* Mutant of restore_session_from_keyring: the stored access token is adopted
\* as session token even when the load rejects the record.
restore_session_from_keyring_adopting_stored(kr, utcnow, api_key, fault) ==
    LET loaded == load_token_from_keyring(kr, utcnow, fault)
        client == EtsyClient(api_key, loaded.ret.access_token)
    IN  IF ~loaded.ret.found
        THEN [ret |-> FALSE, raised |-> None, session_token |-> kr.access_token,
              etsy_client |-> None, kr |-> loaded.kr, faulted |-> loaded.faulted]
        ELSE IF client.raised
        THEN [ret |-> FALSE, raised |-> client.error,
              session_token |-> loaded.ret.access_token,
              etsy_client |-> None, kr |-> loaded.kr, faulted |-> loaded.faulted]
        ELSE [ret |-> TRUE, raised |-> None,
              session_token |-> loaded.ret.access_token,
              etsy_client |-> client.client, kr |-> loaded.kr,
              faulted |-> loaded.faulted]

\* restore_session_from_keyring: the value it returns, the globals it leaves,
\* and the exception that escapes it when EtsyClient(...) raises.
restore_session_from_keyring(kr, utcnow, api_key, fault) ==
    LET loaded == load_token_from_keyring(kr, utcnow, fault)
        client == EtsyClient(api_key, loaded.ret.access_token)
    IN  IF ~loaded.ret.found
        THEN [ret |-> FALSE, raised |-> None, session_token |-> None,
              etsy_client |-> None, kr |-> loaded.kr, faulted |-> loaded.faulted]
        ELSE IF client.raised
        THEN [ret |-> FALSE, raised |-> client.error,
              session_token |-> loaded.ret.access_token,
              etsy_client |-> None, kr |-> loaded.kr, faulted |-> loaded.faulted]
        ELSE [ret |-> TRUE, raised |-> None,
              session_token |-> loaded.ret.access_token,
              etsy_client |-> client.client, kr |-> loaded.kr,
              faulted |-> loaded.faulted]

\* Import of server.py: OAuthManager() under try/except ValueError, then
\* restore_session_from_keyring() outside any handler.
Startup(fault) ==
    /\ main_pc = "start"
    /\ LET r == restore_session_from_keyring(keyring, now, env_api_key, fault)
       IN  /\ fault # 0 => r.faulted
           /\ oauth_manager' = IF env_api_key THEN "OAuthManager" ELSE None
           /\ keyring' = r.kr
           /\ session_token' = r.session_token
           /\ etsy_client' = r.etsy_client
           /\ main_pc' = IF r.raised # None THEN "crashed" ELSE "running"
           /\ last_return' = Returned("restore", 0,
                                [restored |-> r.ret, raised |-> r.raised],
                                r.faulted,
                                Before(session_token, etsy_client, keyring, now))
    /\ UNCHANGED <<now, env_api_key, shop_vars, om_state, om_code_verifier, connect_vars,
                   listener_vars>>

\* connect_etsy returns `result`: its locals go out of scope.
ConnectReturns(t, result, faulted, frame) ==
    /\ pc' = [pc EXCEPT ![t] = "done"]
    /\ auth_data' = [auth_data EXCEPT ![t] = EmptyDict]
    /\ wait_result' = [wait_result EXCEPT ![t] = NotWaited]
    /\ posts' = [posts EXCEPT ![t] = <<>>]
    /\ exchange_outcome' = [exchange_outcome EXCEPT ![t] = NoOutcome]
    /\ token_data' = [token_data EXCEPT ![t] = EmptyDict]
    /\ browser_opened' = [browser_opened EXCEPT ![t] = FALSE]
    /\ last_return' = Returned("connect", t, result, faulted, frame)

\* Mutant of ConnectStart: webbrowser.open is called before start().
ConnectStart_browser_first ==
    LET t == attempts + 1
        auth == get_authorization_url(t)
    IN
    /\ main_pc = "running"
    /\ ~LoopBlocked
    /\ attempts < MaxAttempts
    /\ attempts' = t
    /\ IF oauth_manager = None
       THEN /\ ConnectReturns(t,
                 Failure("OAuth manager not initialized. Please set ETSY_API_KEY environment variable."),
                 FALSE, Frame(EmptyDict, NotWaited, <<>>, EmptyDict, FALSE))
            /\ UNCHANGED <<om_state, om_code_verifier, server, callback_function>>
       ELSE /\ om_state' = auth.state
            /\ om_code_verifier' = auth.code_verifier
            /\ callback_function' = t
            /\ IF PortInUse
               THEN /\ ConnectReturns(t,
                         Failure("Authorization failed: [Errno 98] Address already in use"),
                         FALSE, Frame(auth, NotWaited, <<>>, EmptyDict, TRUE))
                    /\ UNCHANGED server
               ELSE /\ server' = [server EXCEPT ![t] = "bound"]
                    /\ browser_opened' = [browser_opened EXCEPT ![t] = TRUE]
                    /\ auth_data' = [auth_data EXCEPT ![t] = auth]
                    /\ pc' = [pc EXCEPT ![t] = "opening"]
                    /\ last_return' = NothingReturned
                    /\ UNCHANGED <<wait_result, posts, exchange_outcome, token_data>>
    /\ UNCHANGED <<now, main_pc, env_api_key, shop_vars, oauth_manager, session_vars,
                   callback_data, callback_received, inflight>>

\* connect_etsy up to webbrowser.open: get_authorization_url, then the
\* listener's start(), which rebinds CallbackHandler.callback_function, binds
\* the port and starts the serving thread.  From here on the listener serves
\* requests, while connect_etsy is still on its way to the wait.
ConnectStart ==
    LET t == attempts + 1
        auth == get_authorization_url(t)
    IN
    /\ main_pc = "running"
    /\ ~LoopBlocked
    /\ attempts < MaxAttempts
    /\ attempts' = t
    /\ IF oauth_manager = None
       THEN /\ ConnectReturns(t,
                 Failure("OAuth manager not initialized. Please set ETSY_API_KEY environment variable."),
                 FALSE, Frame(EmptyDict, NotWaited, <<>>, EmptyDict, FALSE))
            /\ UNCHANGED <<om_state, om_code_verifier, server, callback_function>>
       ELSE /\ om_state' = auth.state
            /\ om_code_verifier' = auth.code_verifier
            /\ callback_function' = t
            /\ IF PortInUse
               THEN /\ ConnectReturns(t,
                         Failure("Authorization failed: [Errno 98] Address already in use"),
                         FALSE, Frame(auth, NotWaited, <<>>, EmptyDict, FALSE))
                    /\ UNCHANGED server
               ELSE /\ server' = [server EXCEPT ![t] = "bound"]
                    /\ auth_data' = [auth_data EXCEPT ![t] = auth]
                    /\ pc' = [pc EXCEPT ![t] = "opening"]
                    /\ last_return' = NothingReturned
                    /\ UNCHANGED <<wait_result, posts, exchange_outcome, token_data,
                                   browser_opened>>
    /\ UNCHANGED <<now, main_pc, env_api_key, shop_vars, oauth_manager, session_vars,
                   callback_data, callback_received, inflight>>

\* webbrowser.open(auth_data['url']) returns, and connect_etsy enters the
\* wait; `browser_ok` = FALSE: it raises, and the handler returns the failure
\* with stop() never called.
OpenBrowser(t, browser_ok) ==
    /\ pc[t] = "opening"
    /\ IF browser_ok
       THEN /\ browser_opened' = [browser_opened EXCEPT ![t] = TRUE]
            /\ pc' = [pc EXCEPT ![t] = "waiting"]
            /\ UNCHANGED <<auth_data, wait_result, posts, exchange_outcome,
                           token_data, last_return>>
       ELSE ConnectReturns(t,
              Failure("Authorization failed: could not launch browser"),
              FALSE, Frame(auth_data[t], NotWaited, <<>>, EmptyDict, FALSE))
    /\ UNCHANGED <<now, main_pc, env_api_key, shop_vars, manager_vars, session_vars,
                   attempts, listener_vars>>

\* The listener thread of instance l (serve_forever): accept a connection, ...
AcceptRequest(l) ==
    /\ server[l] = "bound"
    /\ inflight[l] = NoRequest
    /\ inflight' = [inflight EXCEPT ![l] = [phase |-> "accepted"]]
    /\ UNCHANGED <<now, main_pc, env_api_key, shop_vars, manager_vars, session_vars,
                   connect_vars, server, callback_data, callback_received,
                   callback_function, last_return>>

\* ... do_GET: parse the query and write the response page, ...
do_GET(l, q) ==
    /\ inflight[l] = [phase |-> "accepted"]
    /\ inflight' = [inflight EXCEPT ![l] = [phase |-> "responded", query |-> q,
                                            status |-> do_GET_status(q)]]
    /\ UNCHANGED <<now, main_pc, env_api_key, shop_vars, manager_vars, session_vars,
                   connect_vars, server, callback_data, callback_received,
                   callback_function, last_return>>

\* The handler calls self.callback_function(...) when there is an error or a
\* code and the class attribute is set; otherwise do_GET returns with the page
\* written and nothing recorded.
CallsBack(l) ==
    /\ do_GET_callback_args(inflight[l].query) # EmptyDict
    /\ callback_function # 0

\* Mutant of HandleCallback: the event is set where the result should be
\* assigned, so the waiter can run before callback_data holds anything.
HandleCallback_signal_first(l) ==
    /\ inflight[l].phase = "responded"
    /\ CallsBack(l)
    /\ callback_received' = [callback_received EXCEPT ![callback_function] = TRUE]
    /\ inflight' = [inflight EXCEPT ![l] =
                      [phase |-> "recorded", query |-> inflight[l].query,
                       status |-> inflight[l].status, target |-> callback_function]]
    /\ UNCHANGED <<now, main_pc, env_api_key, shop_vars, manager_vars, session_vars,
                   connect_vars, server, callback_data, callback_function,
                   last_return>>

\* ... then self.callback_function(...): the class attribute, bound to the
\* _handle_callback of the instance whose start() ran last (target).  Its
\* first statement assigns that instance's callback_data; ...
HandleCallback(l) ==
    /\ inflight[l].phase = "responded"
    /\ CallsBack(l)
    /\ callback_data' = [callback_data EXCEPT ![callback_function] =
                           do_GET_callback_args(inflight[l].query)]
    /\ inflight' = [inflight EXCEPT ![l] =
                      [phase |-> "recorded", query |-> inflight[l].query,
                       status |-> inflight[l].status, target |-> callback_function]]
    /\ UNCHANGED <<now, main_pc, env_api_key, shop_vars, manager_vars, session_vars,
                   connect_vars, server, callback_received, callback_function,
                   last_return>>

\* ... its second statement, self.callback_received.set(), sets that
\* instance's event, which wakes a main thread blocked in Event.wait; ...
SignalCallback(l) ==
    /\ inflight[l].phase = "recorded"
    /\ callback_received' = [callback_received EXCEPT ![inflight[l].target] = TRUE]
    /\ inflight' = [inflight EXCEPT ![l] =
                      [phase |-> "signalled", query |-> inflight[l].query,
                       status |-> inflight[l].status, target |-> inflight[l].target]]
    /\ UNCHANGED <<now, main_pc, env_api_key, shop_vars, manager_vars, session_vars,
                   connect_vars, server, callback_data, callback_function,
                   last_return>>

\* ... and _handle_callback and do_GET return (do_GET returns straight after
\* the page when it calls nothing back): the request has ended, and
\* serve_forever is between requests again.
FinishRequest(l) ==
    /\ \/ inflight[l].phase = "signalled"
       \/ inflight[l].phase = "responded" /\ ~CallsBack(l)
    /\ inflight' = [inflight EXCEPT ![l] = NoRequest]
    /\ UNCHANGED <<now, main_pc, env_api_key, shop_vars, manager_vars, session_vars,
                   connect_vars, server, callback_data, callback_received,
                   callback_function, last_return>>

\* Mutant of WaitTimeout: the TimeoutError reaches the handler without stop()
\* having run (no finally).
WaitTimeout_no_stop(t) ==
    /\ pc[t] = "waiting"
    /\ ~callback_received[t]
    /\ ConnectReturns(t, Failure("Authorization timed out. Please try again."), FALSE,
         Frame(auth_data[t], [kind |-> "timeout", data |-> EmptyDict], posts[t],
               EmptyDict, browser_opened[t]))
    /\ UNCHANGED <<now, main_pc, env_api_key, shop_vars, manager_vars, session_vars,
                   attempts, listener_vars>>

\* wait_for_callback: Event.wait(timeout) returns False, TimeoutError is raised.
WaitTimeout(t) ==
    /\ pc[t] = "waiting"
    /\ ~callback_received[t]
    /\ wait_result' = [wait_result EXCEPT ![t] = [kind |-> "timeout", data |-> EmptyDict]]
    /\ pc' = [pc EXCEPT ![t] = "stopping"]
    /\ UNCHANGED <<now, main_pc, env_api_key, shop_vars, manager_vars, session_vars,
                   attempts, auth_data, posts, exchange_outcome, token_data,
                   browser_opened,
                   listener_vars, last_return>>

\* wait_for_callback: the event is set, self.callback_data is read and returned.
WaitReturn(t) ==
    /\ pc[t] = "waiting"
    /\ callback_received[t]
    /\ wait_result' = [wait_result EXCEPT ![t] = [kind |-> "data", data |-> callback_data[t]]]
    /\ pc' = [pc EXCEPT ![t] = "stopping"]
    /\ UNCHANGED <<now, main_pc, env_api_key, shop_vars, manager_vars, session_vars,
                   attempts, auth_data, posts, exchange_outcome, token_data,
                   browser_opened,
                   listener_vars, last_return>>

\* What connect_etsy does once stop() has returned: "timeout", or the verdict
\* on the callback result.
after_stop(waited, auth) ==
    IF waited.kind = "timeout" THEN "timeout"
    ELSE callback_verdict(waited.data, auth)

\* Mutant of connect_failure: the TimeoutError of wait_for_callback is not
\* caught and leaves connect_etsy as an exception.
connect_failure_timeout_uncaught(verdict, cb) ==
    IF verdict = "timeout" THEN [raised |-> "TimeoutError"]
    ELSE IF verdict = "error" THEN Failure("Authorization failed: " \o cb["error"])
    ELSE IF verdict = "missing_code" THEN Failure("No authorization code received")
    ELSE Failure("State mismatch - possible CSRF attack")

connect_failure(verdict, cb) ==
    IF verdict = "timeout" THEN Failure("Authorization timed out. Please try again.")
    ELSE IF verdict = "error" THEN Failure("Authorization failed: " \o cb["error"])
    ELSE IF verdict = "missing_code" THEN Failure("No authorization code received")
    ELSE Failure("State mismatch - possible CSRF attack")

\* Mutant of StopListener: a callback recorded by the time stop() returns is
\* used even though the wait had timed out.
StopListener_late_callback_used(t) ==
    LET waited == IF callback_received[t]
                  THEN [kind |-> "data", data |-> callback_data[t]]
                  ELSE wait_result[t]
    IN
    /\ pc[t] = "stopping"
    /\ inflight[t] = NoRequest
    /\ server' = [server EXCEPT ![t] = "closed"]
    /\ IF after_stop(waited, auth_data[t]) = "exchange"
       THEN /\ posts' = [posts EXCEPT ![t] =
                          @ \o token_requests(waited.data["code"],
                                              auth_data[t].code_verifier)]
            /\ wait_result' = [wait_result EXCEPT ![t] = waited]
            /\ pc' = [pc EXCEPT ![t] = "exchanging"]
            /\ UNCHANGED <<last_return, auth_data, exchange_outcome, token_data,
                           browser_opened>>
       ELSE ConnectReturns(t,
              connect_failure(after_stop(waited, auth_data[t]), waited.data),
              FALSE,
              Frame(auth_data[t], waited, posts[t], EmptyDict,
                    browser_opened[t]))
    /\ UNCHANGED <<now, main_pc, env_api_key, shop_vars, manager_vars, session_vars,
                   attempts, callback_data, callback_received, callback_function,
                   inflight>>

\* finally: callback_server.stop() -- shutdown() returns once serve_forever has
\* left its loop, which it does between requests; server_close() frees the
\* port.  The instance keeps its callback_data and its event as they are.
\* Then the checks on the callback result, and for an accepted code the POST
\* of exchange_code_for_token, at whose await the event loop is released.
StopListener(t) ==
    /\ pc[t] = "stopping"
    /\ inflight[t] = NoRequest
    /\ server' = [server EXCEPT ![t] = "closed"]
    /\ IF after_stop(wait_result[t], auth_data[t]) = "exchange"
       THEN /\ posts' = [posts EXCEPT ![t] =
                          @ \o token_requests(wait_result[t].data["code"],
                                              auth_data[t].code_verifier)]
            /\ pc' = [pc EXCEPT ![t] = "exchanging"]
            /\ UNCHANGED <<last_return, auth_data, wait_result, exchange_outcome,
                           token_data, browser_opened>>
       ELSE ConnectReturns(t,
              connect_failure(after_stop(wait_result[t], auth_data[t]),
                              wait_result[t].data),
              FALSE,
              Frame(auth_data[t], wait_result[t], posts[t], EmptyDict,
                    browser_opened[t]))
    /\ UNCHANGED <<now, main_pc, env_api_key, shop_vars, manager_vars, session_vars,
                   attempts, callback_data, callback_received, callback_function,
                   inflight>>

\* The token endpoint answers the POST.  Still inside `async with
\* httpx.AsyncClient()`: raise_for_status, response.json(), the clock is read
\* and the record built (or the exception raised).  Leaving the block awaits
\* the client's close, which releases the event loop before connect_etsy
\* gets the record.
ExchangeAnswer(t, response) ==
    /\ pc[t] = "exchanging"
    /\ ~LoopBlocked
    /\ exchange_outcome' = [exchange_outcome EXCEPT ![t] =
                               exchange_code_for_token(response, now)]
    /\ pc' = [pc EXCEPT ![t] = "closing"]
    /\ UNCHANGED <<now, main_pc, env_api_key, shop_vars, manager_vars, session_vars,
                   attempts, auth_data, wait_result, posts, token_data,
                   browser_opened, listener_vars, last_return>>

\* The client is closed; exchange_code_for_token returns or raises, and
\* connect_etsy runs on to its return without another await.
ExchangeReturn(t, fault) ==
    /\ pc[t] = "closing"
    /\ ~LoopBlocked
    /\ LET x == exchange_outcome[t] IN
       IF x.raised
       THEN /\ fault = 0
            /\ ConnectReturns(t, Failure("Authorization failed: " \o x.error), FALSE,
                 Frame(auth_data[t], wait_result[t], posts[t], EmptyDict,
                       browser_opened[t]))
            /\ UNCHANGED session_vars
       ELSE LET saved == save_token_to_keyring(keyring, x.value.access_token,
                                               x.value.expires_at, fault)
                client == EtsyClient(env_api_key, x.value.access_token)
                frame == Frame(auth_data[t], wait_result[t], posts[t], x.value,
                               browser_opened[t])
            IN  /\ session_token' = x.value.access_token
                /\ keyring' = saved.kr
                /\ IF client.raised
                   THEN /\ UNCHANGED etsy_client
                        /\ ConnectReturns(t,
                             Failure("Authorization failed: " \o client.error),
                             saved.faulted, frame)
                   ELSE /\ etsy_client' = client.client
                        /\ ConnectReturns(t,
                             [success |-> TRUE,
                              message |-> "Successfully connected to Etsy! Token stored securely in system keyring.",
                              expires_at |-> x.value.expires_at],
                             saved.faulted, frame)
    /\ UNCHANGED <<now, main_pc, env_api_key, shop_vars, manager_vars, attempts, listener_vars>>

\* Mutant of disconnect_etsy: the "nothing to disconnect" test is left out.
disconnect_etsy_unconditional(fault) ==
    /\ main_pc = "running"
    /\ ~LoopBlocked
    /\ LET deleted == delete_token_from_keyring(keyring, fault) IN
       /\ fault # 0 => deleted.faulted
       /\ session_token' = None
       /\ etsy_client' = None
       /\ keyring' = deleted.kr
       /\ last_return' = Returned("disconnect", 0,
            [success |-> TRUE,
             message |-> "Successfully disconnected from Etsy. Token cleared from memory and keyring."],
            deleted.faulted, Before(session_token, etsy_client, keyring, now))
    /\ UNCHANGED <<now, main_pc, env_api_key, shop_vars, manager_vars, connect_vars, listener_vars>>

\* Mutant of disconnect_etsy: the token is cleared from memory only, the
\* keyring is not touched.
disconnect_etsy_memory_only(fault) ==
    /\ main_pc = "running"
    /\ ~LoopBlocked
    /\ fault = 0
    /\ IF session_token = None /\ etsy_client = None
       THEN /\ last_return' = Returned("disconnect", 0,
                 Failure("No active Etsy connection to disconnect."), FALSE,
                 Before(session_token, etsy_client, keyring, now))
            /\ UNCHANGED session_vars
       ELSE /\ session_token' = None
            /\ etsy_client' = None
            /\ UNCHANGED keyring
            /\ last_return' = Returned("disconnect", 0,
                 [success |-> TRUE,
                  message |-> "Successfully disconnected from Etsy. Token cleared from memory and keyring."],
                 FALSE, Before(session_token, etsy_client, keyring, now))
    /\ UNCHANGED <<now, main_pc, env_api_key, shop_vars, manager_vars, connect_vars, listener_vars>>

disconnect_etsy(fault) ==
    /\ main_pc = "running"
    /\ ~LoopBlocked
    /\ IF session_token = None /\ etsy_client = None
       THEN /\ fault = 0
            /\ last_return' = Returned("disconnect", 0,
                 Failure("No active Etsy connection to disconnect."), FALSE,
                 Before(session_token, etsy_client, keyring, now))
            /\ UNCHANGED session_vars
       ELSE LET deleted == delete_token_from_keyring(keyring, fault) IN
            /\ fault # 0 => deleted.faulted
            /\ session_token' = None
            /\ etsy_client' = None
            /\ keyring' = deleted.kr
            /\ last_return' = Returned("disconnect", 0,
                 [success |-> TRUE,
                  message |-> "Successfully disconnected from Etsy. Token cleared from memory and keyring."],
                 deleted.faulted, Before(session_token, etsy_client, keyring, now))
    /\ UNCHANGED <<now, main_pc, env_api_key, shop_vars, manager_vars, connect_vars, listener_vars>>

\* Mutant of status: a token left without a client is dropped on the way.
status_dropping_token ==
    /\ main_pc = "running"
    /\ ~LoopBlocked
    /\ last_return' = Returned("status", 0, get_connection_status, FALSE, NoFrame)
    /\ session_token' = IF etsy_client = None THEN None ELSE session_token
    /\ UNCHANGED <<now, main_pc, env_api_key, shop_vars, manager_vars, etsy_client, keyring,
                   connect_vars, listener_vars>>

status ==
    /\ main_pc = "running"
    /\ ~LoopBlocked
    /\ last_return' = Returned("status", 0, get_connection_status, FALSE, NoFrame)
    /\ UNCHANGED <<now, main_pc, env_api_key, shop_vars, manager_vars, session_vars,
                   connect_vars, listener_vars>>

Next ==
    \/ Tick
    \/ \E fault \in 0..4 : Startup(fault)
    \/ ConnectStart
    \/ \E t \in Attempts : \E browser_ok \in BOOLEAN : OpenBrowser(t, browser_ok)
    \/ \E l \in Attempts : AcceptRequest(l)
    \/ \E l \in Attempts : \E q \in Queries(l) : do_GET(l, q)
    \/ \E l \in Attempts : HandleCallback(l)
    \/ \E l \in Attempts : SignalCallback(l)
    \/ \E l \in Attempts : FinishRequest(l)
    \/ \E t \in Attempts : WaitTimeout(t)
    \/ \E t \in Attempts : WaitReturn(t)
    \/ \E t \in Attempts : StopListener(t)
    \/ \E t \in Attempts : \E response \in TokenResponses(t) :
          ExchangeAnswer(t, response)
    \/ \E t \in Attempts : \E fault \in 0..2 : ExchangeReturn(t, fault)
    \/ \E fault \in 0..2 : disconnect_etsy(fault)
    \/ status

Spec == Init /\ [][Next]_vars

\* ------------------------------------------------------- the session store
\* The keyring outlives the process: what one process's connect_etsy saved the
\* next one's restore loads, and what a disconnect_etsy deleted stays deleted.
\* StoreSpec applies the three store functions to the keyring in any order,
\* with the clock advancing in between, from every keyring an earlier run can
\* have left.
StoreTokens == {"", AccessToken(1)}
StoreExpiries == {isoformat(t) : t \in 0..(MaxNow + 1)}

\* A call of a store function: the keyring and clock it found, its arguments.
StoreCall(kr, utcnow, args) == [keyring |-> kr, now |-> utcnow, args |-> args]

store_idle_vars == <<main_pc, env_api_key, shop_vars, manager_vars, session_token,
                     etsy_client, connect_vars, listener_vars>>

StoreInit == Init /\ env_api_key = TRUE

CallSave(access_token, expires_at, fault) ==
    /\ LET saved == save_token_to_keyring(keyring, access_token, expires_at, fault) IN
       /\ keyring' = saved.kr
       /\ last_return' = Returned("save", 0, None, saved.faulted,
                            StoreCall(keyring, now, [access_token |-> access_token,
                                                     expires_at |-> expires_at]))
    /\ UNCHANGED <<now, store_idle_vars>>

CallLoad(fault) ==
    /\ LET loaded == load_token_from_keyring(keyring, now, fault) IN
       /\ fault # 0 => loaded.faulted
       /\ keyring' = loaded.kr
       /\ last_return' = Returned("load", 0, loaded.ret, loaded.faulted,
                            StoreCall(keyring, now, EmptyDict))
    /\ UNCHANGED <<now, store_idle_vars>>

CallDelete(fault) ==
    /\ LET deleted == delete_token_from_keyring(keyring, fault) IN
       /\ fault # 0 => deleted.faulted
       /\ keyring' = deleted.kr
       /\ last_return' = Returned("delete", 0, None, deleted.faulted,
                            StoreCall(keyring, now, EmptyDict))
    /\ UNCHANGED <<now, store_idle_vars>>

StoreNext ==
    \/ Tick
    \/ \E access_token \in StoreTokens : \E expires_at \in StoreExpiries :
          \E fault \in 0..2 : CallSave(access_token, expires_at, fault)
    \/ \E fault \in 0..4 : CallLoad(fault)
    \/ \E fault \in 0..2 : CallDelete(fault)

StoreSpec == StoreInit /\ [][StoreNext]_vars

\* -------------------------------------------------------------- get_my_shop
\* The requests EtsyClient sends: the URL and the Authorization header, which
\* carries the access token the client was constructed with.
get_current_user(client) ==
    [url |-> "/application/users/me", access_token |-> client]
get_shop(client, shop_id) ==
    [url |-> "/application/shops/" \o shop_id, access_token |-> client]

\* The Etsy API's answers to the two requests.
UserResponses ==
    { [status_code |-> 500, json |-> EmptyDict],
      [status_code |-> 200, json |-> [user_id |-> "7"]],
      [status_code |-> 200, json |-> [user_id |-> "7", shop_id |-> "9"]] }
ShopResponses ==
    { [status_code |-> 500, json |-> EmptyDict],
      [status_code |-> 200, json |-> [shop_id |-> "9", shop_name |-> "shop"]] }

ShopFrame(requests) == [requests |-> requests]

\* get_my_shop returns `result`: its locals go out of scope.
GetMyShopReturns(result) ==
    /\ shop_pc' = "idle"
    /\ shop_user_data' = EmptyDict
    /\ upstream' = <<>>
    /\ last_return' = Returned("get_my_shop", 0, result, FALSE, ShopFrame(upstream))

\* get_my_shop up to its first await: the test of etsy_client, then
\* etsy_client.get_current_user() sends its request.
GetMyShop ==
    /\ main_pc = "running"
    /\ ~LoopBlocked
    /\ shop_pc = "idle"
    /\ IF etsy_client = None
       THEN /\ last_return' = Returned("get_my_shop", 0,
                 Failure("Not connected to Etsy. Please use connect_etsy tool first."),
                 FALSE, ShopFrame(<<>>))
            /\ UNCHANGED shop_vars
       ELSE /\ upstream' = <<get_current_user(etsy_client)>>
            /\ shop_pc' = "user"
            /\ last_return' = NothingReturned
            /\ UNCHANGED shop_user_data
    /\ UNCHANGED <<now, main_pc, env_api_key, manager_vars, session_vars,
                   connect_vars, listener_vars>>

\* Mutant of CurrentUserReturn: the client found at the start of the call is
\* kept in a local and used for the second request.
CurrentUserReturn_client_kept(response) ==
    /\ shop_pc = "user"
    /\ ~LoopBlocked
    /\ IF response.status_code # 200
       THEN GetMyShopReturns(Failure("Error retrieving shop information: HTTPStatusError"))
       ELSE IF ~Truthy(Get(response.json, "shop_id"))
       THEN GetMyShopReturns(Failure("No shop_id found for this user. You may need to create an Etsy shop first."))
       ELSE /\ upstream' = Append(upstream,
                              get_shop(upstream[1].access_token, response.json["shop_id"]))
            /\ shop_user_data' = response.json
            /\ shop_pc' = "shop"
            /\ UNCHANGED last_return
    /\ UNCHANGED <<now, main_pc, env_api_key, manager_vars, session_vars,
                   connect_vars, listener_vars>>

\* The first request is answered: raise_for_status, the shop_id test, then
\* etsy_client.get_shop(...) -- the global is read again, and on None the
\* attribute lookup raises AttributeError into the handler.
CurrentUserReturn(response) ==
    /\ shop_pc = "user"
    /\ ~LoopBlocked
    /\ IF response.status_code # 200
       THEN GetMyShopReturns(Failure("Error retrieving shop information: HTTPStatusError"))
       ELSE IF ~Truthy(Get(response.json, "shop_id"))
       THEN GetMyShopReturns(Failure("No shop_id found for this user. You may need to create an Etsy shop first."))
       ELSE IF etsy_client = None
       THEN GetMyShopReturns(Failure("Error retrieving shop information: 'NoneType' object has no attribute 'get_shop'"))
       ELSE /\ upstream' = Append(upstream,
                              get_shop(etsy_client, response.json["shop_id"]))
            /\ shop_user_data' = response.json
            /\ shop_pc' = "shop"
            /\ UNCHANGED last_return
    /\ UNCHANGED <<now, main_pc, env_api_key, manager_vars, session_vars,
                   connect_vars, listener_vars>>

\* The second request is answered; get_my_shop returns.
ShopReturn(response) ==
    /\ shop_pc = "shop"
    /\ ~LoopBlocked
    /\ IF response.status_code # 200
       THEN GetMyShopReturns(Failure("Error retrieving shop information: HTTPStatusError"))
       ELSE GetMyShopReturns([success |-> TRUE, shop |-> response.json,
                              user_id |-> Get(shop_user_data, "user_id")])
    /\ UNCHANGED <<now, main_pc, env_api_key, manager_vars, session_vars,
                   connect_vars, listener_vars>>

\* A process started with its API key set, on an empty keyring or on one that
\* holds a whole record not yet expired (the restore connects).
ShopInit ==
    /\ Init
    /\ env_api_key = TRUE
    /\ keyring \in {EmptyKeyring, StoredRecord(1)}

\* connect, disconnect, the restore and get_my_shop on one event loop.  The
\* clock and status are left out: get_my_shop reads neither the time nor
\* anything a status call writes.
ShopNext ==
    \/ \E fault \in 0..4 : Startup(fault)
    \/ ConnectStart
    \/ \E t \in Attempts : \E browser_ok \in BOOLEAN : OpenBrowser(t, browser_ok)
    \/ \E l \in Attempts : AcceptRequest(l)
    \/ \E l \in Attempts : \E q \in Queries(l) : do_GET(l, q)
    \/ \E l \in Attempts : HandleCallback(l)
    \/ \E l \in Attempts : SignalCallback(l)
    \/ \E l \in Attempts : FinishRequest(l)
    \/ \E t \in Attempts : WaitTimeout(t)
    \/ \E t \in Attempts : WaitReturn(t)
    \/ \E t \in Attempts : StopListener(t)
    \/ \E t \in Attempts : \E response \in TokenResponses(t) :
          ExchangeAnswer(t, response)
    \/ \E t \in Attempts : \E fault \in 0..2 : ExchangeReturn(t, fault)
    \/ \E fault \in 0..2 : disconnect_etsy(fault)
    \/ GetMyShop
    \/ \E response \in UserResponses : CurrentUserReturn(response)
    \/ \E response \in ShopResponses : ShopReturn(response)

ShopSpec == ShopInit /\ [][ShopNext]_vars

\* ------------------------------------------------------------------ claims
\* The callback result an invocation obtained carries a code whose state is
\* not the state generated for that invocation (a forged, stale or absent one).
StateMismatch(waited, auth) ==
    /\ waited.kind = "data"
    /\ Truthy(Get(waited.data, "code"))
    /\ Get(waited.data, "state") # auth.state

\* C1: whenever connect_etsy goes on from the wait with a code whose state is
\* not the one this invocation generated, that step is its return with the
\* state-mismatch failure: no POST to the token endpoint has been or is
\* issued for it, and session_token, etsy_client and the keyring are left
\* as they were.
C1_MismatchedStateNeverExchanged ==
    [][\A t \in Attempts :
          (pc[t] = "stopping" /\ pc'[t] # "stopping"
              /\ StateMismatch(wait_result[t], auth_data[t]))
          => /\ pc'[t] = "done"
             /\ posts[t] = <<>>
             /\ last_return'.op = "connect" /\ last_return'.task = t
             /\ last_return'.result = Failure("State mismatch - possible CSRF attack")
             /\ last_return'.frame.posts = <<>>
             /\ last_return'.frame.token_data = EmptyDict
             /\ UNCHANGED session_vars]_vars

C1_Witness ==
    /\ last_return.op = "connect"
    /\ StateMismatch(last_return.frame.wait_result, last_return.frame.auth_data)
    /\ Get(last_return.frame.wait_result.data, "state") = None
    /\ last_return.result.success = FALSE

\* The exchange of the invocation that returned last succeeded: the callback
\* carried a code with the matching state and exchange_code_for_token returned
\* a record holding an access token.
ExchangeSucceeded(frame) ==
    /\ after_stop(frame.wait_result, frame.auth_data) = "exchange"
    /\ frame.token_data # EmptyDict
    /\ Truthy(frame.token_data.access_token)

\* C2: when the callback carried a code with the matching state and the
\* exchange returned a token, connect_etsy returns success with the record's
\* expires_at, session_token is the exchanged token, the client is built on
\* it so that status reports connected, and save_token_to_keyring was given
\* the same token and expires_at: unless a backend call raised in it, the
\* keyring holds that token and a metadata blob that parses to that expires_at.
C2_ExchangedTokenStored ==
    (last_return.op = "connect" /\ ExchangeSucceeded(last_return.frame))
    => LET exchanged == last_return.frame.token_data IN
       /\ last_return.result.success = TRUE
       /\ last_return.result.expires_at = exchanged.expires_at
       /\ session_token = exchanged.access_token
       /\ etsy_client = exchanged.access_token
       /\ get_connection_status.connected = TRUE
       /\ ~last_return.faulted =>
            /\ keyring.access_token = exchanged.access_token
            /\ Get(json_loads(keyring.token_metadata), "expires_at") = exchanged.expires_at

C2_Witness ==
    /\ last_return.op = "connect"
    /\ ExchangeSucceeded(last_return.frame)
    /\ last_return.result.success = TRUE
    /\ ~last_return.faulted
    /\ get_connection_status.connected = TRUE
    /\ keyring.access_token = session_token

\* C3 (as claimed): whenever connect_etsy has returned, the listener it
\* started is no longer bound to the port.
C3_ListenerStoppedOnEveryReturn ==
    \A t \in Attempts : pc[t] = "done" => server[t] # "bound"

\* C4: when the wait ends by timeout, connect_etsy returns the timeout
\* failure without a POST to the token endpoint, its listener is closed and
\* the port is free for the next start(); and no step of the invocation, from
\* its start through the wait to that return, changes session_token,
\* etsy_client or the keyring.
C4_TimeoutReturn ==
    (last_return.op = "connect" /\ last_return.frame.wait_result.kind = "timeout")
    => /\ last_return.result = Failure("Authorization timed out. Please try again.")
       /\ last_return.frame.posts = <<>>
       /\ server[last_return.task] = "closed"
       /\ ~PortInUse

C4_TimeoutStep ==
    \A t \in Attempts :
       (\/ pc'[t] \in {"opening", "waiting", "stopping"}
        \/ pc[t] = "stopping" /\ wait_result[t].kind = "timeout")
       => UNCHANGED session_vars

C4_TimeoutReleasesPortAndKeepsSession ==
    []C4_TimeoutReturn /\ [][C4_TimeoutStep]_vars

C4_Witness ==
    /\ last_return.op = "connect"
    /\ last_return.frame.wait_result.kind = "timeout"
    /\ last_return.result.success = FALSE
    /\ server[last_return.task] = "closed"

\* C5: a request with an error parameter is answered 400, also when it
\* carries code and state; the handler records {code: None, state: None,
\* error} in the listener that start() registered last, which for a waiting
\* connect_etsy is its own; and a connect_etsy that obtained such a result
\* returns "Authorization failed: <error>" without a POST to the token
\* endpoint.
C5_ErrorAnswered400 ==
    \A l \in Attempts :
       (inflight[l].phase = "responded" /\ Truthy(inflight[l].query.error))
       => inflight[l].status = 400

C5_WaiterOwnsHandler ==
    \A t \in Attempts : pc[t] \in {"waiting", "stopping"} => callback_function = t

C5_ErrorReturn ==
    (/\ last_return.op = "connect"
     /\ last_return.frame.wait_result.kind = "data"
     /\ Truthy(Get(last_return.frame.wait_result.data, "error")))
    => LET cb == last_return.frame.wait_result.data IN
       /\ cb = Query(None, None, cb.error)
       /\ last_return.result = Failure("Authorization failed: " \o cb.error)
       /\ last_return.frame.posts = <<>>

C5_ErrorRecordedStep ==
    \A l \in Attempts :
       /\ (/\ inflight[l].phase = "responded"
           /\ Truthy(inflight[l].query.error)
           /\ inflight'[l] # inflight[l])
          => /\ callback_function # 0
             /\ inflight'[l].phase = "recorded"
             /\ inflight'[l].target = callback_function
             /\ callback_data'[callback_function] =
                   Query(None, None, inflight[l].query.error)
       /\ (/\ inflight[l].phase = "recorded"
           /\ Truthy(inflight[l].query.error)
           /\ inflight'[l] # inflight[l])
          => callback_received'[inflight[l].target] = TRUE

C5_ErrorCallbackFailsConnect ==
    /\ [](C5_ErrorAnswered400 /\ C5_WaiterOwnsHandler /\ C5_ErrorReturn)
    /\ [][C5_ErrorRecordedStep]_vars

C5_Witness ==
    /\ last_return.op = "connect"
    /\ last_return.frame.wait_result.kind = "data"
    /\ last_return.frame.wait_result.data = Query(None, None, "access_denied")
    /\ last_return.result = Failure("Authorization failed: access_denied")

\* C6 (as claimed): a request with neither code nor error, served while
\* connect_etsy waits on that listener, releases the waiter (with a result
\* that makes connect_etsy return "No authorization code received").
C6_MissingCodeReleasesWaiter ==
    [][\A l \in Attempts :
          (/\ pc[l] = "waiting"
           /\ inflight[l].phase = "responded"
           /\ ~Truthy(inflight[l].query.code)
           /\ ~Truthy(inflight[l].query.error)
           /\ inflight'[l] = NoRequest)
          => callback_received'[l] = TRUE]_vars

\* C7: once disconnect_etsy has returned success -- it found a session, such
\* as the one a successful connect_etsy leaves -- session_token and
\* etsy_client are None, status reports connected = false, and, unless a
\* backend call raised in the delete, the access-token entry is gone and
\* load_token_from_keyring finds nothing.
C7_DisconnectClearsBothLayers ==
    (last_return.op = "disconnect" /\ last_return.result.success)
    => /\ session_token = None
       /\ etsy_client = None
       /\ get_connection_status.connected = FALSE
       /\ ~last_return.faulted =>
            /\ keyring.access_token = None
            /\ \A t \in 0..MaxNow :
                  load_token_from_keyring(keyring, t, 0).ret = NotFound

\* The session a successful connect_etsy of invocation 1 leaves, then cleared.
C7_Witness ==
    /\ last_return.op = "disconnect"
    /\ last_return.result.success
    /\ ~last_return.faulted
    /\ last_return.frame.session_token = AccessToken(1)
    /\ last_return.frame.etsy_client = AccessToken(1)
    /\ last_return.frame.keyring.access_token = AccessToken(1)
    /\ keyring = EmptyKeyring

\* C8: disconnect_etsy entered with session_token and etsy_client both None
\* returns the "nothing to disconnect" failure and leaves session_token,
\* etsy_client and both keyring entries as it found them.
C8_DisconnectWhileIdle ==
    (/\ last_return.op = "disconnect"
     /\ last_return.frame.session_token = None
     /\ last_return.frame.etsy_client = None)
    => /\ last_return.result = Failure("No active Etsy connection to disconnect.")
       /\ session_token = None
       /\ etsy_client = None
       /\ keyring = last_return.frame.keyring

\* Idle with an entry left in the keyring, and disconnect_etsy called.
C8_Witness ==
    /\ last_return.op = "disconnect"
    /\ last_return.frame.session_token = None
    /\ last_return.frame.etsy_client = None
    /\ last_return.result.success = FALSE
    /\ keyring # EmptyKeyring

\* The keyring holds a token whose expires_at is after t.
HoldsUnexpiredToken(kr, t) ==
    /\ Truthy(kr.access_token)
    /\ Truthy(kr.token_metadata)
    /\ t < fromisoformat(json_loads(kr.token_metadata).expires_at)

\* C9 (as claimed): the restore at process start, when no backend call
\* raises, ends Connected (token and client held) exactly when the keyring
\* held a token expiring after now, and Idle (neither held) otherwise, with
\* the process running; no listener was started and no browser opened.
C9_RestoreConnectedIffUnexpired ==
    (last_return.op = "restore" /\ ~last_return.faulted)
    => /\ main_pc = "running"
       /\ IF HoldsUnexpiredToken(last_return.frame.keyring, last_return.frame.now)
          THEN session_token # None /\ etsy_client # None
          ELSE session_token = None /\ etsy_client = None
       /\ \A l \in Attempts : server[l] = None /\ ~browser_opened[l]

\* C10: when the keyring holds both entries and the record's expires_at is
\* at or before now, the load at startup returns nothing (the restore does
\* not connect) and, unless a backend call raised in it, both entries are
\* gone from the keyring afterwards.
ExpiredRecord(kr, t) ==
    /\ Truthy(kr.access_token)
    /\ Truthy(kr.token_metadata)
    /\ fromisoformat(json_loads(kr.token_metadata).expires_at) <= t

C10_ExpiredRecordPurgedOnLoad ==
    (/\ last_return.op = "restore"
     /\ ExpiredRecord(last_return.frame.keyring, last_return.frame.now))
    => /\ last_return.result.restored = FALSE
       /\ session_token = None
       /\ etsy_client = None
       /\ ~last_return.faulted => keyring = EmptyKeyring

\* A record expiring at tick 1, loaded at tick 1 (the boundary).
C10_Witness ==
    /\ last_return.op = "restore"
    /\ last_return.frame.keyring = StoredRecord(1)
    /\ last_return.frame.now = 1
    /\ ~last_return.faulted
    /\ keyring = EmptyKeyring

\* C11: a save of a token with an expires_at that is still ahead when the
\* record is loaded, followed (with no other store call in between) by a load,
\* returns that access_token and that expires_at and leaves the keyring as
\* the save left it; and a load that follows a load which returned a record,
\* with no store call in between and the record still unexpired, returns the
\* same record and leaves the keyring unchanged.  (No backend call raising.)
C11_SaveThenLoad ==
    (/\ last_return.op = "save" /\ ~last_return.faulted
     /\ Truthy(last_return.frame.args.access_token)
     /\ last_return'.op = "load" /\ ~last_return'.faulted
     /\ now < fromisoformat(last_return.frame.args.expires_at))
    => /\ last_return'.result =
             [found |-> TRUE,
              access_token |-> last_return.frame.args.access_token,
              expires_at |-> last_return.frame.args.expires_at]
       /\ keyring' = keyring

C11_LoadTwice ==
    (/\ last_return.op = "load" /\ ~last_return.faulted
     /\ last_return.result.found
     /\ last_return'.op = "load" /\ ~last_return'.faulted
     /\ now < fromisoformat(last_return.result.expires_at))
    => /\ last_return'.result = last_return.result
       /\ keyring' = keyring

C11_SaveLoadRoundTrip ==
    [][C11_SaveThenLoad /\ C11_LoadTwice]_vars

\* A record saved by this run, loaded one tick later and found unchanged.
C11_Witness ==
    /\ last_return.op = "load"
    /\ ~last_return.faulted
    /\ last_return.result = [found |-> TRUE, access_token |-> AccessToken(1),
                             expires_at |-> isoformat(MaxNow + 1)]
    /\ last_return.frame.now = MaxNow
    /\ keyring = last_return.frame.keyring

\* C12 (as claimed): delete_token_from_keyring, called on any keyring (both
\* entries, only the access token, only the metadata, neither) with no
\* backend failure, returns and leaves both entries absent.
C12_DeleteLeavesBothAbsent ==
    (last_return.op = "delete" /\ ~last_return.faulted)
    => keyring = EmptyKeyring

\* C13: a backend call that raises inside save_token_to_keyring,
\* load_token_from_keyring or delete_token_from_keyring does not escape the
\* operation that made it.  The restore whose load failed returns False with
\* no exception, the process runs on and holds no token and no client; the
\* connect_etsy whose save failed still holds the exchanged token and, for a
\* non-empty token, returns success with the client built and status reporting
\* connected; the disconnect_etsy whose delete failed returns success with
\* token and client cleared.
C13_StoreFailureContained ==
    last_return.faulted =>
       /\ main_pc = "running"
       /\ last_return.op \in {"restore", "connect", "disconnect"}
       /\ last_return.op = "restore" =>
             /\ last_return.result = [restored |-> FALSE, raised |-> None]
             /\ session_token = None /\ etsy_client = None
       /\ last_return.op = "connect" =>
             /\ last_return.frame.token_data # EmptyDict
             /\ session_token = last_return.frame.token_data.access_token
             /\ Truthy(session_token) =>
                   /\ last_return.result.success = TRUE
                   /\ etsy_client = session_token
                   /\ get_connection_status.connected = TRUE
       /\ last_return.op = "disconnect" =>
             /\ last_return.result.success = TRUE
             /\ session_token = None /\ etsy_client = None
             /\ get_connection_status.connected = FALSE

\* A connect_etsy whose save raised on its first backend call: connected in
\* memory, nothing of the new token in the keyring.
C13_Witness ==
    /\ last_return.op = "connect"
    /\ last_return.faulted
    /\ last_return.result.success = TRUE
    /\ etsy_client = session_token
    /\ keyring.access_token # session_token

\* C14 (as claimed): with ETSY_API_KEY unset the import of server.py,
\* restore included, completes without an exception whatever the keyring
\* holds, so that the process runs and serves status and disconnect, and
\* connect_etsy returns the "OAuth manager not initialized" failure.
C14_MissingKeyDisablesOnlyConnect ==
    ~env_api_key =>
       /\ main_pc # "crashed"
       /\ last_return.op = "restore" => last_return.result.raised = None
       /\ last_return.op = "connect" =>
             last_return.result =
                Failure("OAuth manager not initialized. Please set ETSY_API_KEY environment variable.")

\* C15: every return of connect_etsy is a result dictionary.  It carries
\* success = True exactly when the exchange returned a token the client could
\* be built on; on every other path (manager missing, bind failure, browser
\* launch failure, timeout, provider error, state mismatch, rejected exchange,
\* token response without access_token, empty token) it is
\* {success: False, error: <message>}; and no connect_etsy stops the process.
C15_ConnectFailuresAreResults ==
    /\ attempts > 0 => main_pc = "running"
    /\ last_return.op = "connect" =>
          LET r == last_return.result IN
          IF "success" \notin DOMAIN r THEN FALSE
          ELSE /\ r.success \in BOOLEAN
               /\ r.success <=> ExchangeSucceeded(last_return.frame)
               /\ ~r.success =>
                     /\ DOMAIN r = {"success", "error"}
                     /\ Truthy(r.error)

\* The token endpoint answered 200 with a body that has no access_token.
C15_Witness ==
    /\ last_return.op = "connect"
    /\ Len(last_return.frame.posts) = 1
    /\ last_return.result = Failure("Authorization failed: 'access_token'")
    /\ main_pc = "running"

\* C16: a status call changes nothing but what it returns: session_token,
\* etsy_client, both keyring entries, every listener (bound or not, its
\* recorded callback, the handler registration, the request it is serving),
\* the manager and every running connect_etsy are as before, and the result
\* is success = True with connected = (etsy_client is not None).
C16_StatusStep ==
    (last_return'.op = "status" /\ last_return' # last_return)
    => /\ UNCHANGED <<session_vars, listener_vars, connect_vars, manager_vars,
                      now, main_pc, env_api_key>>
       /\ last_return'.result.success = TRUE
       /\ last_return'.result.connected = (etsy_client # None)
       /\ last_return'.result.connected = (etsy_client' # None)

C16_StatusNeverMutates ==
    [][C16_StatusStep]_vars

\* status answered "connected" while a listener is still bound to the port.
C16_Witness ==
    /\ last_return.op = "status"
    /\ last_return.result.connected = TRUE
    /\ etsy_client # None
    /\ PortInUse

\* C17 (as claimed): while a connect_etsy is blocked in wait_for_callback, a
\* status request can be answered: the status step is enabled in every state
\* in which an invocation is waiting.
C17_StatusAnsweredWhileConnecting ==
    \A t \in Attempts : pc[t] = "waiting" => ENABLED status

\* C18 (as claimed): once connect_etsy has called stop(), stop() can return
\* and free the port whatever the listener's state, in particular while a
\* connection has been accepted whose request has not arrived: its return
\* does not wait for anything a client has yet to send.
C18_StopReturnsInEveryListenerState ==
    \A t \in Attempts :
       (pc[t] = "stopping" /\ inflight[t].phase \in {"none", "accepted"})
       => ENABLED StopListener(t)

\* C19: at no time are two listeners bound to the port, and at no time are
\* two connect_etsy invocations between start() and the return of stop().  A
\* connect_etsy starts only when no other invocation is in that stretch (it
\* holds the event loop), and one that starts while a listener is still bound
\* binds nothing and returns the bind failure.
C19_OneListener ==
    /\ Cardinality({l \in Attempts : server[l] = "bound"}) <= 1
    /\ Cardinality({t \in Attempts : pc[t] \in {"opening", "waiting", "stopping"}}) <= 1

C19_SecondConnectStep ==
    attempts' # attempts =>
       /\ ~LoopBlocked
       /\ PortInUse =>
             /\ server' = server
             /\ pc'[attempts'] = "done"
             /\ last_return'.result.success = FALSE

C19_NeverTwoListeners ==
    []C19_OneListener /\ [][C19_SecondConnectStep]_vars

\* A second connect_etsy met the listener of the first still bound.
C19_Witness ==
    /\ attempts = 2
    /\ server[1] = "bound"
    /\ server[2] = None
    /\ last_return.op = "connect" /\ last_return.task = 2
    /\ last_return.result = Failure("Authorization failed: [Errno 98] Address already in use")

\* C20: an invocation of connect_etsy sends at most one POST to the token
\* endpoint.  When the exchange raises (the endpoint answered with a
\* non-success status, or without an access_token), the invocation returns in
\* its next step, after that single POST, with {success: False, error: "Authorization
\* failed: <the exception>"}, and leaves session_token, etsy_client and both
\* keyring entries as they were.
C20_OnePost ==
    /\ \A t \in Attempts : Len(posts[t]) <= 1
    /\ last_return.op = "connect" =>
          /\ Len(last_return.frame.posts) <= 1
          /\ last_return.result = Failure("Authorization failed: HTTPStatusError") =>
                /\ Len(last_return.frame.posts) = 1
                /\ last_return.frame.token_data = EmptyDict

C20_RejectedStep ==
    \A t \in Attempts :
       (/\ pc[t] = "closing" /\ pc'[t] # "closing"
        /\ exchange_outcome[t].raised)
       => /\ pc'[t] = "done"
          /\ Len(posts[t]) = 1
          /\ last_return'.frame.posts = posts[t]
          /\ last_return'.result \in
                {Failure("Authorization failed: HTTPStatusError"),
                 Failure("Authorization failed: 'access_token'")}
          /\ UNCHANGED session_vars

C20_RejectedExchangeNotRetried ==
    []C20_OnePost /\ [][C20_RejectedStep]_vars

\* The endpoint answered 400 to the POST of an invocation that ran while a
\* restored session was held: one POST, failure, session untouched.
C20_Witness ==
    /\ last_return.op = "connect"
    /\ last_return.result = Failure("Authorization failed: HTTPStatusError")
    /\ Len(last_return.frame.posts) = 1
    /\ session_token = "tok_0"
    /\ keyring.access_token = "tok_0"

\* A token-endpoint answer with a success status and a body without
\* access_token.
LacksAccessToken(response) ==
    /\ response.status_code = 200
    /\ "access_token" \notin DOMAIN response.json

\* C21: when the token endpoint answers the POST of an invocation with a
\* success status and no access_token, exchange_code_for_token raises, the
\* invocation returns {success: False, error: "Authorization failed:
\* 'access_token'"} holding no token record, and neither the step of the
\* answer nor the step of the return changes session_token, etsy_client or
\* a keyring entry.
C21_MalformedStep ==
    \A t \in Attempts :
       /\ \A response \in TokenResponses(t) :
             (LacksAccessToken(response) /\ ExchangeAnswer(t, response))
             => /\ exchange_outcome'[t].raised
                /\ exchange_outcome'[t].error = "'access_token'"
                /\ UNCHANGED session_vars
       /\ (/\ pc[t] = "closing" /\ pc'[t] # "closing"
           /\ exchange_outcome[t].error = "'access_token'")
          => /\ pc'[t] = "done"
             /\ last_return'.op = "connect" /\ last_return'.task = t
             /\ last_return'.result = Failure("Authorization failed: 'access_token'")
             /\ last_return'.frame.token_data = EmptyDict
             /\ UNCHANGED session_vars

C21_MalformedResponseFailsConnect ==
    [][C21_MalformedStep]_vars

\* Such an answer came while a restored session was held, which is kept.
C21_Witness ==
    /\ last_return.op = "connect"
    /\ last_return.result = Failure("Authorization failed: 'access_token'")
    /\ Len(last_return.frame.posts) = 1
    /\ session_token = "tok_0" /\ etsy_client = "tok_0"
    /\ keyring = StoredRecord(1)

\* C22: for every answer with a success status and an access_token, the
\* record exchange_code_for_token builds holds that access_token, an
\* expires_at that parses to the clock reading at the answer plus the
\* answer's expires_in (3600 when the answer has none), and the answer's
\* token_type ("Bearer" when the answer has none); and that record is what
\* connect_etsy receives, stores and reports.
C22_RecordStep ==
    \A t \in Attempts :
       /\ \A response \in TokenResponses(t) :
             (/\ response.status_code = 200
              /\ "access_token" \in DOMAIN response.json
              /\ ExchangeAnswer(t, response))
             => LET data == response.json
                    record == exchange_outcome'[t].value
                IN  /\ ~exchange_outcome'[t].raised
                    /\ record.access_token = data.access_token
                    /\ fromisoformat(record.expires_at) =
                          now + (IF "expires_in" \in DOMAIN data THEN data.expires_in
                                 ELSE DefaultExpiresIn)
                    /\ record.token_type =
                          (IF "token_type" \in DOMAIN data THEN data.token_type
                           ELSE "Bearer")
       /\ (/\ pc[t] = "closing" /\ pc'[t] # "closing"
           /\ ~exchange_outcome[t].raised)
          => /\ last_return'.op = "connect" /\ last_return'.task = t
             /\ last_return'.frame.token_data = exchange_outcome[t].value
             /\ session_token' = exchange_outcome[t].value.access_token
             /\ last_return'.result.success =>
                   last_return'.result.expires_at = exchange_outcome[t].value.expires_at

C22_ExpiresAtFromExpiresIn ==
    [][C22_RecordStep]_vars

\* An answer with expires_in = 1 and its own token_type, exchanged at the
\* last tick of the clock.
C22_Witness ==
    /\ last_return.op = "connect"
    /\ last_return.frame.token_data # EmptyDict
    /\ last_return.frame.token_data.token_type = "MAC"
    /\ last_return.frame.token_data.expires_at = isoformat(MaxNow + 1)
    /\ now = MaxNow

\* C23 (as claimed): in every state in which a tool call can run (the process
\* is up and no connect_etsy holds the event loop), session_token is held
\* exactly when etsy_client is, so that status reports connected exactly when
\* a token is held in memory.
C23_TokenHeldIffClientHeld ==
    (main_pc = "running" /\ ~LoopBlocked)
    => /\ (session_token # None) <=> (etsy_client # None)
       /\ get_connection_status.connected = (session_token # None)

\* The step is a disconnect_etsy that found a session and cleared it.
IsDisconnectStep ==
    /\ last_return'.op = "disconnect"
    /\ last_return'.result.success = TRUE
    /\ last_return'.frame = Before(session_token, etsy_client, keyring, now)

\* C24: etsy_client and session_token go from held to None only in a step
\* of disconnect_etsy; a tick of the clock, whatever expires_at it passes,
\* changes neither of them, nor the keyring, nor what status returns; and
\* the only steps that remove the stored access token are disconnect_etsy
\* and the load of the restore at process start.
C24_SessionStep ==
    /\ (etsy_client # None /\ etsy_client' = None) => IsDisconnectStep
    /\ (session_token # None /\ session_token' = None) => IsDisconnectStep
    /\ now' # now =>
          /\ UNCHANGED session_vars
          /\ get_connection_status' = get_connection_status
    /\ (keyring.access_token # None /\ keyring'.access_token = None) =>
          \/ IsDisconnectStep
          \/ main_pc = "start" /\ last_return'.op = "restore"

C24_ConnectedUntilDisconnect ==
    [][C24_SessionStep]_vars

\* status answered "connected" for a restored token whose stored expires_at
\* has passed since the restore.
C24_Witness ==
    /\ last_return.op = "status"
    /\ last_return.result.connected = TRUE
    /\ session_token = keyring.access_token
    /\ ExpiredRecord(keyring, now)

\* C25 (as claimed): once a listener's event is set, a further callback
\* served by that listener before its waiter has read the result leaves the
\* recorded result as the first callback wrote it, so that the waiter
\* obtains the first callback's result.
C25_FirstCallbackWins ==
    [][\A l \in Attempts :
          (callback_received[l] /\ pc[l] = "waiting" /\ pc'[l] = "waiting")
          => callback_data'[l] = callback_data[l]]_vars

\* C26: whenever a listener's event is set its callback_data holds all of
\* code, state and error, with a code or an error in it; the step that sets
\* the event belongs to a request whose response has been written and whose
\* result is already in callback_data; and what a waiter takes from the wait
\* is such a complete result.
CompleteResult(cb) ==
    /\ DOMAIN cb = {"code", "state", "error"}
    /\ Truthy(cb.code) \/ Truthy(cb.error)

C26_RecordedWhenSignalled ==
    /\ \A l \in Attempts : callback_received[l] => CompleteResult(callback_data[l])
    /\ \A t \in Attempts : wait_result[t].kind = "data" => CompleteResult(wait_result[t].data)
    /\ (last_return.op = "connect" /\ last_return.frame.wait_result.kind = "data")
          => CompleteResult(last_return.frame.wait_result.data)

C26_SignalStep ==
    \A x \in Attempts :
       (~callback_received[x] /\ callback_received'[x])
       => /\ callback_data'[x] = callback_data[x]
          /\ \E l \in Attempts :
                /\ inflight[l].phase = "recorded"
                /\ inflight[l].target = x
                /\ inflight[l].status \in {200, 400}
                /\ callback_data[x] = do_GET_callback_args(inflight[l].query)

C26_ResponseThenRecordThenSignal ==
    []C26_RecordedWhenSignalled /\ [][C26_SignalStep]_vars

\* The waiter was released by a callback with code and state and took them.
C26_Witness ==
    \E t \in Attempts :
       /\ pc[t] = "stopping"
       /\ wait_result[t].kind = "data"
       /\ wait_result[t].data = Query("code_1", NewState(t), None)
       /\ callback_received[t]

\* C27: a connect_etsy that starts while a listener holds the port binds
\* nothing and returns the bind failure in the same step: it has not opened
\* the browser, has not waited for a callback, has sent no POST, and
\* session_token, etsy_client and both keyring entries are as before.  And
\* an invocation that opened the browser has a listener that was bound.
C27_BindFailureStep ==
    (attempts' # attempts /\ oauth_manager # None
        /\ \E l \in Attempts : server[l] = "bound")
    => /\ server' = server
       /\ pc'[attempts'] = "done"
       /\ last_return'.op = "connect" /\ last_return'.task = attempts'
       /\ last_return'.result =
             Failure("Authorization failed: [Errno 98] Address already in use")
       /\ last_return'.frame.browser_opened = FALSE
       /\ last_return'.frame.wait_result = NotWaited
       /\ last_return'.frame.posts = <<>>
       /\ UNCHANGED session_vars

C27_BrowserAfterBind ==
    /\ \A t \in Attempts : browser_opened[t] => server[t] # None
    /\ (last_return.op = "connect" /\ last_return.frame.browser_opened)
          => server[last_return.task] # None

C27_BrowserOnlyAfterBind ==
    []C27_BrowserAfterBind /\ [][C27_BindFailureStep]_vars

\* The bind failed for a connect_etsy made while a restored session was
\* held; the session is as it was.
C27_Witness ==
    /\ last_return.op = "connect"
    /\ last_return.result =
          Failure("Authorization failed: [Errno 98] Address already in use")
    /\ last_return.frame.browser_opened = FALSE
    /\ server[last_return.task] = None
    /\ session_token = "tok_0" /\ etsy_client = "tok_0"
    /\ keyring = StoredRecord(1)

\* C28: two invocations of connect_etsy that are under way at the same time
\* hold different states and different verifiers; the POST of an invocation
\* carries the verifier in that invocation's own auth_data, and is sent only
\* for a callback whose state is the one in that auth_data -- also when the
\* manager's state and code_verifier have meanwhile been replaced by a later
\* invocation.
OwnStateAndVerifier(auth, waited, posted) ==
    posted # <<>> =>
       /\ Len(posted) = 1
       /\ posted[1].code_verifier = auth.code_verifier
       /\ waited.kind = "data"
       /\ waited.data.state = auth.state
       /\ posted[1].code = waited.data.code

C28_FreshPerAttempt ==
    /\ \A t, u \in Attempts :
          (t # u /\ auth_data[t] # EmptyDict /\ auth_data[u] # EmptyDict)
          => /\ auth_data[t].state # auth_data[u].state
             /\ auth_data[t].code_verifier # auth_data[u].code_verifier
    /\ \A t \in Attempts :
          OwnStateAndVerifier(auth_data[t], wait_result[t], posts[t])
    /\ last_return.op = "connect" =>
          OwnStateAndVerifier(last_return.frame.auth_data,
                              last_return.frame.wait_result,
                              last_return.frame.posts)

\* The exchange of the first invocation returned after a second invocation
\* had replaced the manager's state and verifier.
C28_Witness ==
    /\ last_return.op = "connect" /\ last_return.task = 1
    /\ last_return.result.success = TRUE
    /\ last_return.frame.posts # <<>>
    /\ om_code_verifier # last_return.frame.auth_data.code_verifier
    /\ om_state # last_return.frame.auth_data.state
    /\ last_return.frame.posts[1].code_verifier =
          last_return.frame.auth_data.code_verifier

\* C29 (as claimed): once a connect_etsy that generated a state and a
\* verifier has returned, neither the manager nor any invocation still holds
\* that state or that verifier.
C29_VerifierAndStateDiscarded ==
    (last_return.op = "connect" /\ last_return.frame.auth_data # EmptyDict)
    => /\ om_state # last_return.frame.auth_data.state
       /\ om_code_verifier # last_return.frame.auth_data.code_verifier
       /\ \A t \in Attempts : auth_data[t] # last_return.frame.auth_data

\* C30: a load that finds the access-token entry or the metadata entry
\* missing returns nothing and leaves both entries as they were, whether or
\* not a backend call raises in it.
C30_MissingEntryStep ==
    \A fault \in 0..4 :
       (/\ keyring.access_token = None \/ keyring.token_metadata = None
        /\ CallLoad(fault))
       => /\ last_return'.result = NotFound
          /\ keyring' = keyring

C30_LoadAbsentWhenEntryMissing ==
    [][C30_MissingEntryStep]_vars

\* A load of a keyring holding an access token and no metadata.
C30_Witness ==
    /\ last_return.op = "load"
    /\ last_return.result = NotFound
    /\ ~last_return.faulted
    /\ last_return.frame.keyring.access_token # None
    /\ last_return.frame.keyring.token_metadata = None
    /\ keyring = last_return.frame.keyring

\* C31 (as claimed): a save either writes both of its values or leaves the
\* store as it found it, also when a backend write raises midway, so the
\* store never pairs one save's access token with an expires_at that this
\* save did not write.
C31_NoMixedRecord ==
    (last_return.op = "save" /\ keyring # last_return.frame.keyring)
    => keyring = [access_token |-> last_return.frame.args.access_token,
                  token_metadata |->
                      json_dumps(last_return.frame.args.expires_at)]

\* C32 (as claimed): the step in which a connect_etsy invocation returns a
\* failure leaves session_token, etsy_client and both keyring entries as they
\* were, whatever the session was before and whichever statement failed, the
\* construction of the client included.
C32_FailedConnectStep ==
    \A t \in Attempts :
       (/\ pc[t] # "done" /\ pc'[t] = "done"
        /\ last_return'.op = "connect" /\ last_return'.task = t
        /\ last_return'.result.success = FALSE)
       => UNCHANGED session_vars

C32_FailedConnectChangesNothing ==
    [][C32_FailedConnectStep]_vars

\* C33: session_token changes only in three ways.  disconnect_etsy clears it;
\* the restore at import sets it to the access token of a stored record that
\* the load accepted (no expires_at, or one still in the future); a
\* connect_etsy invocation sets it to the access token of the record its own
\* exchange returned, after a callback whose state equalled the state this
\* invocation generated and with the code of that callback posted.
StoredRecordNotExpired ==
    /\ Truthy(keyring.access_token)
    /\ Truthy(keyring.token_metadata)
    /\ LET expires_at == Get(json_loads(keyring.token_metadata), "expires_at")
       IN  Truthy(expires_at) => now < fromisoformat(expires_at)

C33_ClearedByDisconnect ==
    /\ session_token' = None
    /\ last_return'.op = "disconnect"
    /\ last_return'.result.success = TRUE

C33_SetByRestore ==
    /\ main_pc = "start" /\ main_pc' # "start"
    /\ last_return'.op = "restore"
    /\ StoredRecordNotExpired
    /\ session_token' = keyring.access_token

C33_SetByExchange ==
    \E t \in Attempts :
       /\ pc[t] = "closing" /\ pc'[t] = "done"
       /\ last_return'.op = "connect" /\ last_return'.task = t
       /\ LET frame == last_return'.frame IN
          /\ frame.token_data # EmptyDict
          /\ session_token' = frame.token_data.access_token
          /\ frame.wait_result.kind = "data"
          /\ Get(frame.wait_result.data, "state") = frame.auth_data.state
          /\ frame.auth_data.state = NewState(t)
          /\ frame.posts = token_requests(frame.wait_result.data["code"],
                                          frame.auth_data.code_verifier)

C33_TokenStep ==
    session_token' # session_token
    => \/ C33_ClearedByDisconnect
       \/ C33_SetByRestore
       \/ C33_SetByExchange

C33_TokenOnlyFromExchangeOrRestore ==
    [][C33_TokenStep]_vars

\* The second connect_etsy invocation has set the token its own exchange
\* returned, after a callback carrying the state it generated.
C33_Witness ==
    /\ last_return.op = "connect"
    /\ last_return.task = 2
    /\ last_return.result.success = TRUE
    /\ session_token = AccessToken(2)
    /\ last_return.frame.wait_result.data["state"] = NewState(2)

\* C34: memory and store agree between steps as long as no backend call
\* raises.  The restore of a keyring that fault-free runs can have left (empty
\* or a whole record) ends with them in agreement; from then on every step of
\* connect_etsy, disconnect_etsy and status in which no backend call raises
\* keeps them in agreement, in every interleaving: with no session_token the
\* keyring is empty, otherwise it holds session_token and its metadata.
C34_StoreMatchesMemory ==
    \/ session_token = None /\ keyring = EmptyKeyring
    \/ /\ session_token # None
       /\ keyring.access_token = session_token
       /\ keyring.token_metadata # None

C34_StepFaulted ==
    last_return' # last_return /\ last_return'.faulted

C34_Step ==
    /\ (/\ main_pc = "start" /\ main_pc' = "running"
        /\ keyring \in {EmptyKeyring, StoredRecord(0), StoredRecord(1)}
        /\ ~C34_StepFaulted)
       => C34_StoreMatchesMemory'
    /\ (/\ main_pc = "running"
        /\ C34_StoreMatchesMemory
        /\ ~C34_StepFaulted)
       => C34_StoreMatchesMemory'

C34_StoreFollowsSession ==
    [][C34_Step]_vars

\* The second invocation's exchange has returned while the first one's is
\* still outstanding, and the store holds the second one's token.
C34_Witness ==
    /\ pc[1] = "exchanging"
    /\ last_return.op = "connect" /\ last_return.task = 2
    /\ last_return.result.success = TRUE
    /\ ~last_return.faulted
    /\ session_token = AccessToken(2)
    /\ C34_StoreMatchesMemory

\* C35 (as claimed): the callback of a request served by listener l is
\* delivered to instance l: no step of the request changes the
\* callback_data or the event of another instance, whatever start() calls
\* have run since l was bound.
C35_DeliveryStep ==
    \A l \in Attempts :
       (inflight[l].phase # "none" /\ inflight'[l] # inflight[l])
       => \A other \in Attempts \ {l} :
             /\ callback_data'[other] = callback_data[other]
             /\ callback_received'[other] = callback_received[other]

C35_DeliveredToOwnInstance ==
    [][C35_DeliveryStep]_vars

\* C36: from the moment wait_for_callback has raised TimeoutError, whatever
\* the listener still records before stop() has closed it, the invocation
\* posts nothing to the token endpoint, no step changes session_token,
\* etsy_client or the keyring, and the invocation's next step is its return
\* of the timeout failure.
TimedOut(t) ==
    pc[t] = "stopping" /\ wait_result[t].kind = "timeout"

C36_TimedOutStep ==
    \A t \in Attempts :
       TimedOut(t)
       => /\ UNCHANGED session_vars
          /\ posts'[t] = <<>>
          /\ \/ TimedOut(t)'
             \/ /\ pc'[t] = "done"
                /\ last_return'.op = "connect" /\ last_return'.task = t
                /\ last_return'.result =
                      Failure("Authorization timed out. Please try again.")
                /\ last_return'.frame.posts = <<>>
                /\ last_return'.frame.token_data = EmptyDict

C36_LateCallbackIgnored ==
    [][C36_TimedOutStep]_vars

\* The wait has timed out, stop() has not closed the listener yet, and the
\* listener has recorded a callback with a code and the generated state.
C36_Witness ==
    \E t \in Attempts :
       /\ TimedOut(t)
       /\ callback_received[t]
       /\ callback_data[t] = Query("code_1", NewState(t), None)
       /\ inflight[t] = NoRequest

\* C37: get_my_shop sends a request to the Etsy API only in a step that finds
\* the session connected (etsy_client set, what status reports), and sends it
\* with the token of the client held at that moment.  Called while not
\* connected it returns the "Not connected" failure with no request sent; a
\* call that was awaiting its first answer when disconnect_etsy completed
\* sends no second request and returns a failure.
C37_RequestStep ==
    (upstream' # upstream /\ upstream' # <<>>)
    => /\ get_connection_status.connected
       /\ upstream' = Append(upstream, upstream'[Len(upstream')])
       /\ upstream'[Len(upstream')].access_token = etsy_client

C37_NotConnectedStep ==
    (~get_connection_status.connected /\ GetMyShop)
    => /\ last_return'.op = "get_my_shop"
       /\ last_return'.result =
             Failure("Not connected to Etsy. Please use connect_etsy tool first.")
       /\ last_return'.frame.requests = <<>>
       /\ UNCHANGED upstream

C37_DisconnectedStep ==
    (/\ shop_pc = "user" /\ shop_pc' # "user"
     /\ ~get_connection_status.connected)
    => /\ shop_pc' = "idle"
       /\ last_return'.op = "get_my_shop"
       /\ last_return'.result.success = FALSE
       /\ last_return'.frame.requests = upstream
       /\ Len(upstream) = 1

C37_RequestsOnlyWhileConnected ==
    [][C37_RequestStep /\ C37_NotConnectedStep /\ C37_DisconnectedStep]_vars

\* A get_my_shop that sent its first request while connected has returned
\* after a disconnect_etsy, with its second request never sent.
C37_Witness ==
    /\ last_return.op = "get_my_shop"
    /\ last_return.result =
          Failure("Error retrieving shop information: 'NoneType' object has no attribute 'get_shop'")
    /\ Len(last_return.frame.requests) = 1
    /\ etsy_client = None
    /\ session_token = None
====
